---- MODULE Spec2Model ----
(***************************************************************************)
(* Model of apdbctl (src/main.c): a command-line tool that finds the       *)
(* brightness-control HID interface of an Apple Pro Display XDR and reads  *)
(* or writes its brightness through a 7-byte HID feature report.           *)
(*                                                                         *)
(* 32-bit unsigned values are kept as two 16-bit limbs [hi, lo] and the    *)
(* 64-bit accumulator of strtoul as four 16-bit limbs, so that narrowing   *)
(* and sign reinterpretation behave as in the C code.                      *)
(***************************************************************************)
EXTENDS Integers, Sequences, FiniteSets, TLC

\* ------------------------------------------------------------------------
\* Program constants (src/main.c:17-24)
\* ------------------------------------------------------------------------
APPLE_INC == 1452
PRO_DISPLAY_XDR == 37443
BRIGHTNESS_REPORT_ID == 1
BRIGHTNESS_REPORT_PAGE == 32773
BRIGHTNESS_REPORT_USAGE == 4105
BRIGHTNESS_MIN == 400
BRIGHTNESS_MAX == 50000
BRIGHTNESS_RANGE == BRIGHTNESS_MAX - BRIGHTNESS_MIN

\* ------------------------------------------------------------------------
\* IEEE-754 single precision, as far as to_percent_brightness needs it.
\* A positive float is [m, s] with value m / 2^s and 2^23 <= m < 2^24.
\* ------------------------------------------------------------------------
FLT_MANT_DIG == 24

Pow2(n) == 2 ^ n

\* round-to-nearest, ties-to-even, of q + rem/unit kept to an integer
RoundNearestEven(q, rem, unit) ==
  IF 2 * rem > unit \/ (2 * rem = unit /\ q % 2 = 1) THEN q + 1 ELSE q

\* renormalise a significand that rounding carried up to 2^24
FloatNormalise(m, s) ==
  IF m = Pow2(FLT_MANT_DIG) THEN [m |-> Pow2(FLT_MANT_DIG - 1), s |-> s - 1]
  ELSE [m |-> m, s |-> s]

RECURSIVE DivBits(_, _, _, _)
\* long division, one quotient bit per step, until 24 significant bits
DivBits(q, r, s, d) ==
  IF q >= Pow2(FLT_MANT_DIG - 1) THEN [q |-> q, r |-> r, s |-> s]
  ELSE LET bit == IF 2 * r >= d THEN 1 ELSE 0
       IN DivBits(2 * q + bit, 2 * r - bit * d, s + 1, d)

\* (float)x / (float)d for integers 0 <= x <= d < 2^24 (both exact floats)
FloatDiv(x, d) ==
  IF x = 0 THEN [m |-> 0, s |-> 0]
  ELSE LET b == DivBits(x \div d, x % d, 0, d)
       IN FloatNormalise(RoundNearestEven(b.q, b.r, d), b.s)

RECURSIVE ShiftCount(_)
\* number of low bits to drop so that p fits in 24 bits
ShiftCount(p) == IF p < Pow2(FLT_MANT_DIG) THEN 0 ELSE 1 + ShiftCount(p \div 2)

\* f * (float)k for a small integer k (the int 100 converted to float)
FloatMulInt(f, k) ==
  IF f.m = 0 THEN f
  ELSE LET p == f.m * k
           n == ShiftCount(p)
       IN FloatNormalise(RoundNearestEven(p \div Pow2(n), p % Pow2(n), Pow2(n)),
                         f.s - n)

\* conversion of a non-negative float to an integer: truncation toward zero
FloatTrunc(f) ==
  IF f.s >= FLT_MANT_DIG THEN 0
  ELSE IF f.s >= 0 THEN f.m \div Pow2(f.s)
  ELSE f.m * Pow2(0 - f.s)

\* ------------------------------------------------------------------------
\* Brightness conversions (src/main.c:245-270), on in-range arguments
\* ------------------------------------------------------------------------
InAbsoluteRange(n) == n >= BRIGHTNESS_MIN /\ n <= BRIGHTNESS_MAX
InPercentRange(n) == n >= 0 /\ n <= 100

to_percent_brightness(absolute) ==
  FloatTrunc(FloatMulInt(FloatDiv(absolute - BRIGHTNESS_MIN, BRIGHTNESS_RANGE), 100)) % 256

to_absolute_brightness_DivideFirst(percentage) ==
  ((percentage \div 100) * BRIGHTNESS_RANGE) + BRIGHTNESS_MIN

to_absolute_brightness(percentage) ==
  ((percentage * BRIGHTNESS_RANGE) \div 100) + BRIGHTNESS_MIN

\* ------------------------------------------------------------------------
\* Machine integers
\* ------------------------------------------------------------------------
LIMB == 65536

\* a uint32_t as two 16-bit limbs
U32(n) == [hi |-> n \div LIMB, lo |-> n % LIMB]

U32Less(a, b) == a.hi < b.hi \/ (a.hi = b.hi /\ a.lo < b.lo)

\* uint32_t -> int32_t (two's complement wrap, as gcc and clang define it)
ToInt32(w) ==
  IF w.hi < LIMB \div 2 THEN w.hi * LIMB + w.lo
  ELSE (w.hi - LIMB) * LIMB + w.lo

\* (uint8_t) of a uint32_t
ToUint8(w) == w.lo % 256

\* htole32 followed by the byte view of the packed struct member
htole32(w) == <<w.lo % 256, w.lo \div 256, w.hi % 256, w.hi \div 256>>

\* the packed struct member read back and passed through le32toh
le32toh(b) == [hi |-> b[3] + 256 * b[4], lo |-> b[1] + 256 * b[2]]

\* ------------------------------------------------------------------------
\* strtoul(parameter, &last, 10) on a 64-bit unsigned long: four limbs,
\* least significant first
\* ------------------------------------------------------------------------
DigitChars == {"0", "1", "2", "3", "4", "5", "6", "7", "8", "9"}

DigitVal(c) ==
  CASE c = "0" -> 0 [] c = "1" -> 1 [] c = "2" -> 2 [] c = "3" -> 3
    [] c = "4" -> 4 [] c = "5" -> 5 [] c = "6" -> 6 [] c = "7" -> 7
    [] c = "8" -> 8 [] c = "9" -> 9

ULONG_ZERO == <<0, 0, 0, 0>>
ULONG_MAX == <<LIMB - 1, LIMB - 1, LIMB - 1, LIMB - 1>>

\* acc * 10 + d, with the carry out of the top limb
MulAdd10(acc, d) ==
  LET t1 == acc[1] * 10 + d
      t2 == acc[2] * 10 + t1 \div LIMB
      t3 == acc[3] * 10 + t2 \div LIMB
      t4 == acc[4] * 10 + t3 \div LIMB
  IN [val |-> <<t1 % LIMB, t2 % LIMB, t3 % LIMB, t4 % LIMB>>,
      carry |-> t4 \div LIMB]

\* 2^64 - x: the unsigned negation strtoul applies after a '-' sign
Negate64(x) ==
  LET c2 == IF x[1] > 0 THEN 1 ELSE 0
      c3 == IF x[2] + c2 > 0 THEN 1 ELSE 0
      c4 == IF x[3] + c3 > 0 THEN 1 ELSE 0
  IN <<(LIMB - x[1]) % LIMB, (LIMB - x[2] - c2) % LIMB,
       (LIMB - x[3] - c3) % LIMB, (LIMB - x[4] - c4) % LIMB>>

RECURSIVE SkipSpace(_, _)
SkipSpace(str, i) ==
  IF i <= Len(str) /\ str[i] = " " THEN SkipSpace(str, i + 1) ELSE i

RECURSIVE ScanDigits(_, _, _, _)
ScanDigits(str, i, acc, ovf) ==
  IF i <= Len(str) /\ str[i] \in DigitChars
  THEN LET r == MulAdd10(acc, DigitVal(str[i]))
       IN ScanDigits(str, i + 1, r.val, ovf \/ r.carry > 0)
  ELSE [acc |-> acc, ovf |-> ovf, last |-> i]

\* result: the unsigned long value and the index of the first character not
\* consumed (Len(str) + 1 is the terminating NUL; 1 means nothing was parsed)
strtoul(str) ==
  LET b == SkipSpace(str, 1)
      signed == b <= Len(str) /\ str[b] \in {"+", "-"}
      neg == signed /\ str[b] = "-"
      first == IF signed THEN b + 1 ELSE b
      d == ScanDigits(str, first, ULONG_ZERO, FALSE)
  IN IF d.last = first THEN [val |-> ULONG_ZERO, last |-> 1]
     ELSE IF d.ovf THEN [val |-> ULONG_MAX, last |-> d.last]
     ELSE IF neg THEN [val |-> Negate64(d.acc), last |-> d.last]
     ELSE [val |-> d.acc, last |-> d.last]

\* the character at an index, "" standing for the terminating NUL
CharAt(str, i) == IF i <= Len(str) THEN str[i] ELSE ""

\* src/main.c:354-365
parse_brightness_parameter(parameter) ==
  LET r == strtoul(parameter)
      value == [hi |-> r.val[2], lo |-> r.val[1]]
      last == r.last
      percent_suffix == CharAt(parameter, last) = "%" /\ CharAt(parameter, last + 1) = ""
  IN IF last = 1 \/ (~percent_suffix /\ ~U32Less(U32(100), value))
     THEN [ok |-> FALSE, value |-> value, as_percentage_point |-> FALSE]
     ELSE [ok |-> TRUE, value |-> value,
           as_percentage_point |-> (CharAt(parameter, last) = "%")]

\* ------------------------------------------------------------------------
\* HID report descriptor prefix (src/main.c:88-104) and the descriptor check
\* ------------------------------------------------------------------------
DESCRIPTOR_SIZE == 34

\* a descriptor whose five inspected fields have the expected values
TargetDescriptor ==
  [usage_page |-> BRIGHTNESS_REPORT_PAGE, usage |-> 2566, collection |-> 417,
   report_id |-> 389, report_usage_pages |-> <<6, 5, 128>>,
   report_usage |-> BRIGHTNESS_REPORT_USAGE, logical_minimum_size |-> 22,
   logical_minimum |-> BRIGHTNESS_MIN, logical_maximum_size |-> 39,
   logical_maximum |-> BRIGHTNESS_MAX, unit |-> <<103, 225, 0, 0, 1>>,
   unit_exponent |-> 3669, report_size |-> 8309, report_count |-> 405,
   feature |-> 33457]

hid_is_brightness_control_device_NoShift(bytes_read, descriptor) ==
  IF bytes_read # DESCRIPTOR_SIZE THEN FALSE
  ELSE /\ descriptor.usage_page = BRIGHTNESS_REPORT_PAGE
       /\ descriptor.report_usage = BRIGHTNESS_REPORT_USAGE
       /\ descriptor.report_id = BRIGHTNESS_REPORT_ID
       /\ descriptor.logical_minimum = BRIGHTNESS_MIN
       /\ descriptor.logical_maximum = BRIGHTNESS_MAX

hid_is_brightness_control_device_NoSizeCheck(bytes_read, descriptor) ==
  /\ descriptor.usage_page = BRIGHTNESS_REPORT_PAGE
  /\ descriptor.report_usage = BRIGHTNESS_REPORT_USAGE
  /\ descriptor.report_id \div 256 = BRIGHTNESS_REPORT_ID
  /\ descriptor.logical_minimum = BRIGHTNESS_MIN
  /\ descriptor.logical_maximum = BRIGHTNESS_MAX

hid_is_brightness_control_device_NoMaximum(bytes_read, descriptor) ==
  IF bytes_read # DESCRIPTOR_SIZE THEN FALSE
  ELSE /\ descriptor.usage_page = BRIGHTNESS_REPORT_PAGE
       /\ descriptor.report_usage = BRIGHTNESS_REPORT_USAGE
       /\ descriptor.report_id \div 256 = BRIGHTNESS_REPORT_ID
       /\ descriptor.logical_minimum = BRIGHTNESS_MIN

\* src/main.c:118-137; bytes_read is what hid_get_report_descriptor returned
hid_is_apple_pro_display_xdr_brightness_control_device(bytes_read, descriptor) ==
  IF bytes_read # DESCRIPTOR_SIZE THEN FALSE
  ELSE /\ descriptor.usage_page = BRIGHTNESS_REPORT_PAGE
       /\ descriptor.report_usage = BRIGHTNESS_REPORT_USAGE
       /\ descriptor.report_id \div 256 = BRIGHTNESS_REPORT_ID
       /\ descriptor.logical_minimum = BRIGHTNESS_MIN
       /\ descriptor.logical_maximum = BRIGHTNESS_MAX

\* the descriptor buffer after hid_get_report_descriptor on an interface: all
\* of it on a full read, all but the last byte (the high byte of feature) on
\* a read one byte short, untouched on a failure
hid_get_report_descriptor(interface, buffer) ==
  IF interface.bytes_read = DESCRIPTOR_SIZE THEN interface.descriptor
  ELSE IF interface.bytes_read = DESCRIPTOR_SIZE - 1
    THEN [interface.descriptor EXCEPT
            !.feature = (interface.descriptor.feature % 256) + 256 * (buffer.feature \div 256)]
  ELSE buffer

is_apple_pro_display_xdr_device_VendorOnly(device) ==
  device.vendor_id = APPLE_INC

\* src/main.c:62-64
is_apple_pro_display_xdr_device(device) ==
  device.vendor_id = APPLE_INC /\ device.product_id = PRO_DISPLAY_XDR

\* ------------------------------------------------------------------------
\* The HID transport: what the attached interfaces answer
\* ------------------------------------------------------------------------
MaxDevices == 3

Descriptors ==
  {TargetDescriptor,
   [TargetDescriptor EXCEPT !.usage_page = 32774],
   [TargetDescriptor EXCEPT !.report_usage = 4104],
   [TargetDescriptor EXCEPT !.report_id = 645],
   [TargetDescriptor EXCEPT !.logical_minimum = 0 - BRIGHTNESS_MIN],
   [TargetDescriptor EXCEPT !.logical_maximum = BRIGHTNESS_MAX + 1],
   [TargetDescriptor EXCEPT !.report_id = 256],
   [TargetDescriptor EXCEPT !.usage = 2567, !.feature = 0],
   [TargetDescriptor EXCEPT !.usage_page = 1, !.logical_minimum = 0]}

\* an attached interface: identity, whether hid_open_path succeeds, and what
\* hid_get_report_descriptor returns and stores
Interfaces ==
  {[vendor_id |-> APPLE_INC, product_id |-> PRO_DISPLAY_XDR, opens |-> TRUE,
    bytes_read |-> DESCRIPTOR_SIZE, descriptor |-> d] : d \in Descriptors}
  \cup
  {[vendor_id |-> APPLE_INC, product_id |-> PRO_DISPLAY_XDR, opens |-> TRUE,
    bytes_read |-> n, descriptor |-> TargetDescriptor] : n \in {0 - 1, DESCRIPTOR_SIZE - 1}}
  \cup
  {[vendor_id |-> APPLE_INC, product_id |-> PRO_DISPLAY_XDR, opens |-> FALSE,
    bytes_read |-> DESCRIPTOR_SIZE, descriptor |-> TargetDescriptor]}
  \cup
  {[vendor_id |-> v[1], product_id |-> v[2], opens |-> TRUE,
    bytes_read |-> DESCRIPTOR_SIZE, descriptor |-> TargetDescriptor] :
      v \in {<<APPLE_INC, PRO_DISPLAY_XDR + 1>>, <<APPLE_INC + 1, PRO_DISPLAY_XDR>>}}

Enumerations == UNION {[1..n -> Interfaces] : n \in 0..MaxDevices}

REPORT_SIZE == 7

\* values the display may hold in the brightness field of its feature report
DeviceValues ==
  {U32(0), U32(BRIGHTNESS_MIN - 1), U32(BRIGHTNESS_MIN), U32(25000), U32(26688),
   U32(BRIGHTNESS_MAX), U32(BRIGHTNESS_MAX + 1), [hi |-> 1, lo |-> 500],
   [hi |-> 32767, lo |-> 65535], [hi |-> 32768, lo |-> 0],
   [hi |-> 65535, lo |-> 65535]}

\* results of hid_get_feature_report: failure, a short read, the full report
FeatureReadResults == {0 - 1, 3, REPORT_SIZE}

\* results of hid_send_feature_report
FeatureSendResults == {0 - 1, REPORT_SIZE}

\* what the uint8_t conversion of an out-of-range float may produce
UndefinedPercent == {0, 100, 101, 255}

\* ------------------------------------------------------------------------
\* Command lines (argv[1..]); every argument is a sequence of characters
\* ------------------------------------------------------------------------
HID_API_VERSION_MAJOR == 0

GET == <<"g", "e", "t">>
SET == <<"s", "e", "t">>
HELP == <<"h", "e", "l", "p">>
DASH_H == <<"-", "h">>
DASH_DASH_HELP == <<"-", "-", "h", "e", "l", "p">>
PERCENT_FLAG == <<"-", "%">>

SetArguments ==
  {<<>>, <<"a", "b", "c">>, <<"%">>,
   <<"5", "0">>, <<"3", "0", "%">>, <<"0", "%">>, <<"1", "0", "0", "%">>,
   <<"1", "0", "1", "%">>, <<"5", "0", "0", "%">>,
   <<"3", "9", "9">>, <<"4", "0", "0">>, <<"5", "0", "0">>,
   <<"5", "0", "0", "0", "0">>, <<"5", "0", "0", "0", "1">>,
   <<"5", "0", "0", "a", "b", "c">>, <<"5", "0", "a", "b", "c">>,
   <<"5", "0", "%", "x">>, <<"5", "0", "0", "%", "x">>, <<"5", "0", "%", "%">>,
   <<"-", "5">>,
   <<"4", "2", "9", "4", "9", "6", "7", "7", "9", "6">>,
   <<"-", "4", "2", "9", "4", "9", "6", "6", "7", "9", "6">>,
   <<"9", "9", "9", "9", "9", "9", "9", "9", "9", "9",
     "9", "9", "9", "9", "9", "9", "9", "9", "9", "9">>}

CommandLines ==
  {<<>>, <<HELP>>, <<DASH_H>>, <<DASH_DASH_HELP>>, <<GET>>, <<GET, PERCENT_FLAG>>,
   <<GET, DASH_H>>, <<GET, PERCENT_FLAG, PERCENT_FLAG>>, <<SET>>,
   <<<<"o", "f", "f">>>>, <<HELP, GET>>}
  \cup {<<SET, a>> : a \in SetArguments}

\* ------------------------------------------------------------------------
\* State
\* ------------------------------------------------------------------------
VARIABLES
  pc,                  \* position in the program
  hid_version_major,   \* hid_version()->major of the loaded library
  argv,                \* the command line after argv[0]
  cmd,                 \* "get" in print_brightness, "set" in set_brightness
  value,               \* set_brightness: the parsed value (uint32_t)
  as_percentage_point, \* the flag of print_brightness / set_brightness
  devices,             \* the list hid_enumerate returned
  it,                  \* the matcher's position in that list
  device,              \* the handle the matcher returned; 0 is NULL
  descriptor,          \* the descriptor buffer of the last descriptor check
  report,              \* the feature report buffer of the last exchange
  calls,               \* the transport calls made so far, in order
  stdout,              \* what was printed on standard output
  status,              \* the exit status once pc = "exit"
  absolute,            \* the absolute side of the last conversion
  percentage,          \* the percentage side of the last conversion
  input,               \* conversions on their own: the value converted first
  brightness           \* print_brightness: what hid_get_brightness returned

vars == <<pc, hid_version_major, argv, cmd, value, as_percentage_point, devices,
          it, device, descriptor, report, calls, stdout, status, absolute,
          percentage, input, brightness>>

NoDescriptor == [TargetDescriptor EXCEPT !.usage_page = 0, !.report_usage = 0,
                 !.report_id = 0, !.logical_minimum = 0, !.logical_maximum = 0]
NoReport == <<0, 0, 0, 0, 0, 0, 0>>

Call(op, dev, ret) == [op |-> op, dev |-> dev, ret |-> ret, data |-> <<>>]
SendCall(dev, ret, data) ==
  [op |-> "hid_send_feature_report", dev |-> dev, ret |-> ret, data |-> data]

Init ==
  /\ pc = "main"
  /\ hid_version_major \in {HID_API_VERSION_MAJOR, HID_API_VERSION_MAJOR + 1}
  /\ argv \in CommandLines
  /\ cmd = "none"
  /\ value = U32(0)
  /\ as_percentage_point = FALSE
  /\ devices = <<>>
  /\ it = 0
  /\ device = 0
  /\ descriptor = NoDescriptor
  /\ report = NoReport
  /\ calls = <<>>
  /\ stdout = <<>>
  /\ status = 0
  /\ absolute = 0
  /\ percentage = 0
  /\ input = 0
  /\ brightness = 0

Exit(code) == pc' = "exit" /\ status' = code

\* ------------------------------------------------------------------------
\* main (src/main.c:367-422), up to the call of print_brightness or
\* set_brightness
\* ------------------------------------------------------------------------
argc == Len(argv) + 1

VersionMismatch_OlderOnly(major) == HID_API_VERSION_MAJOR > major

\* src/main.c:369: the library's major version is not the one built against
VersionMismatch(major) == HID_API_VERSION_MAJOR # major

Main ==
  /\ pc = "main"
  /\ UNCHANGED <<hid_version_major, argv, devices, it, device, descriptor, report,
                 calls, stdout, absolute, percentage, input, brightness>>
  /\ IF VersionMismatch(hid_version_major)
       THEN Exit(1) /\ UNCHANGED <<cmd, value, as_percentage_point>>
     ELSE IF argc < 2 \/ argc > 3
       THEN Exit(1) /\ UNCHANGED <<cmd, value, as_percentage_point>>
     ELSE IF argc = 2 /\ argv[1] \in {DASH_DASH_HELP, DASH_H, HELP}
       THEN Exit(0) /\ UNCHANGED <<cmd, value, as_percentage_point>>
     ELSE IF argv[1] = GET
       THEN IF argc = 3 /\ argv[2] # PERCENT_FLAG
              THEN Exit(1) /\ UNCHANGED <<cmd, value, as_percentage_point>>
              ELSE /\ pc' = "print_brightness"
                   /\ cmd' = "get"
                   /\ as_percentage_point' = (argc = 3)
                   /\ UNCHANGED <<value, status>>
     ELSE IF argv[1] = SET
       THEN IF argc < 3
              THEN Exit(1) /\ UNCHANGED <<cmd, value, as_percentage_point>>
              ELSE LET p == parse_brightness_parameter(argv[2])
                   IN IF ~p.ok
                        THEN Exit(1) /\ UNCHANGED <<cmd, value, as_percentage_point>>
                        ELSE /\ pc' = "set_brightness"
                             /\ cmd' = "set"
                             /\ value' = p.value
                             /\ as_percentage_point' = p.as_percentage_point
                             /\ UNCHANGED status
     ELSE Exit(1) /\ UNCHANGED <<cmd, value, as_percentage_point>>

\* ------------------------------------------------------------------------
\* set_brightness, the range checks (src/main.c:317-327)
\* ------------------------------------------------------------------------
SetBrightnessRejects_NoUpperBound(v, as_percent) ==
  \/ as_percent /\ U32Less(U32(100), v)
  \/ ~as_percent /\ U32Less(v, U32(BRIGHTNESS_MIN))

SetBrightnessRejects(v, as_percent) ==
  \/ as_percent /\ U32Less(U32(100), v)
  \/ ~as_percent /\ (U32Less(v, U32(BRIGHTNESS_MIN)) \/ U32Less(U32(BRIGHTNESS_MAX), v))

SetBrightnessValidate ==
  /\ pc = "set_brightness"
  /\ IF SetBrightnessRejects(value, as_percentage_point)
       THEN Exit(1)
       ELSE pc' = "hid_enumerate" /\ UNCHANGED status
  /\ UNCHANGED <<hid_version_major, argv, cmd, value, as_percentage_point, devices,
                 it, device, descriptor, report, calls, stdout, absolute, percentage, input, brightness>>

\* print_brightness starts with the matcher (src/main.c:283-284)
PrintBrightnessEnter ==
  /\ pc = "print_brightness"
  /\ pc' = "hid_enumerate"
  /\ UNCHANGED <<hid_version_major, argv, cmd, value, as_percentage_point, devices,
                 it, device, descriptor, report, calls, stdout, status, absolute,
                 percentage, input, brightness>>

\* ------------------------------------------------------------------------
\* hid_open_apple_pro_display_xdr_brightness_control_device (src/main.c:151-175)
\* ------------------------------------------------------------------------
HidEnumerate ==
  /\ pc = "hid_enumerate"
  /\ \E e \in Enumerations :
       /\ devices' = e
       /\ calls' = Append(calls, Call("hid_enumerate", 0, Len(e)))
  /\ it' = 1
  /\ pc' = "scan"
  /\ UNCHANGED <<hid_version_major, argv, cmd, value, as_percentage_point, device,
                 descriptor, report, stdout, status, absolute, percentage, input, brightness>>

MatcherRejectLeak(made, handle) == made

\* src/main.c:164-167: a candidate that fails the descriptor check is closed
MatcherReject(made, handle) == Append(made, Call("hid_close", handle, 0))

\* one iteration of the for loop, or the exit from it
MatcherStep ==
  /\ pc = "scan"
  /\ UNCHANGED <<hid_version_major, argv, cmd, value, as_percentage_point, devices,
                 report, stdout, status, absolute, percentage, input, brightness>>
  /\ IF it > Len(devices)
       THEN /\ device' = 0
            /\ pc' = "matched"
            /\ UNCHANGED <<it, descriptor, calls>>
     ELSE IF ~is_apple_pro_display_xdr_device(devices[it])
       THEN /\ it' = it + 1
            /\ UNCHANGED <<pc, device, descriptor, calls>>
     ELSE IF ~devices[it].opens
       THEN /\ calls' = Append(calls, Call("hid_open_path", it, 0))
            /\ it' = it + 1
            /\ UNCHANGED <<pc, device, descriptor>>
     ELSE LET opened == Append(calls, Call("hid_open_path", it, 1))
              read == Append(opened, Call("hid_get_report_descriptor", it,
                                          devices[it].bytes_read))
              buffer == hid_get_report_descriptor(devices[it], descriptor)
          IN /\ descriptor' = buffer
             /\ IF ~hid_is_apple_pro_display_xdr_brightness_control_device(
                       devices[it].bytes_read, buffer)
                  THEN /\ calls' = MatcherReject(read, it)
                       /\ it' = it + 1
                       /\ UNCHANGED <<pc, device>>
                  ELSE /\ calls' = read
                       /\ device' = it
                       /\ pc' = "matched"
                       /\ UNCHANGED it

\* ------------------------------------------------------------------------
\* Feature report exchange (src/main.c:184-234)
\* ------------------------------------------------------------------------
\* the report as initialised by hid_get_brightness before the request
RequestReport == <<BRIGHTNESS_REPORT_ID, 0, 0, 0, 0, 0, 0>>

\* the report a display holding brightness v answers with
DeviceReport(v) == <<BRIGHTNESS_REPORT_ID>> \o htole32(v) \o <<0, 0>>

\* the buffer after hid_get_feature_report returned ret: the first ret bytes
\* come from the display, the rest keep what the caller put there
FeatureReportRead(ret, v) ==
  [i \in 1..REPORT_SIZE |-> IF i <= ret THEN DeviceReport(v)[i] ELSE RequestReport[i]]

hid_get_brightness_Unpacked(ret, buffer) ==
  IF ret < 0 THEN 0 - 1 ELSE ToInt32(le32toh(SubSeq(buffer, 1, 4)))

hid_get_brightness_ZeroOnFailure(ret, buffer) ==
  IF ret < 0 THEN 0 ELSE ToInt32(le32toh(SubSeq(buffer, 2, 5)))

\* src/main.c:198-208; ret is what hid_get_feature_report returned
hid_get_brightness(ret, buffer) ==
  IF ret < 0 THEN 0 - 1 ELSE ToInt32(le32toh(SubSeq(buffer, 2, 5)))

BrightnessReport_BigEndian(target) ==
  <<BRIGHTNESS_REPORT_ID, target.hi \div 256, target.hi % 256,
    target.lo \div 256, target.lo % 256, 0, 0>>

\* src/main.c:224-226: the report hid_set_brightness sends
BrightnessReport(target) == <<BRIGHTNESS_REPORT_ID>> \o htole32(target) \o <<0, 0>>

\* to_percent_brightness built with NDEBUG on an argument its assertion would
\* have refused: the results the conversion to uint8_t can give
PercentWithoutAssert(n) ==
  IF n >= BRIGHTNESS_MIN /\ n - BRIGHTNESS_MIN < Pow2(FLT_MANT_DIG)
     /\ FloatTrunc(FloatMulInt(FloatDiv(n - BRIGHTNESS_MIN, BRIGHTNESS_RANGE), 100)) < 256
  THEN {to_percent_brightness(n)}
  ELSE UndefinedPercent

Abort == pc' = "abort" /\ status' = 134

\* ------------------------------------------------------------------------
\* print_brightness after the matcher returned (src/main.c:285-303)
\* ------------------------------------------------------------------------
PrintBrightness ==
  /\ pc = "matched"
  /\ cmd = "get"
  /\ UNCHANGED <<hid_version_major, argv, cmd, value, as_percentage_point, devices,
                 it, device, descriptor, input>>
  /\ IF device = 0
       THEN Exit(2) /\ UNCHANGED <<report, calls, stdout, absolute, percentage, brightness>>
       ELSE \E ret \in FeatureReadResults, v \in DeviceValues :
              LET buffer == FeatureReportRead(ret, v)
              IN /\ report' = buffer
                 /\ brightness' = hid_get_brightness(ret, buffer)
                 /\ calls' = calls \o <<Call("hid_get_feature_report", device, ret),
                                        Call("hid_close", device, 0)>>
                 /\ IF brightness' < 0
                      THEN Exit(3) /\ UNCHANGED <<stdout, absolute, percentage>>
                    ELSE IF ~as_percentage_point
                      THEN /\ stdout' = Append(stdout, [unit |-> "", n |-> brightness'])
                           /\ Exit(0)
                           /\ UNCHANGED <<absolute, percentage>>
                    ELSE IF InAbsoluteRange(brightness')
                      THEN /\ absolute' = brightness'
                           /\ percentage' = to_percent_brightness(brightness')
                           /\ stdout' = Append(stdout, [unit |-> "%", n |-> percentage'])
                           /\ Exit(0)
                    ELSE \* the entry assertion of to_percent_brightness fails
                         /\ absolute' = brightness'
                         /\ \/ Abort /\ UNCHANGED <<stdout, percentage>>
                            \/ \E p \in PercentWithoutAssert(brightness') :
                                 /\ percentage' = p
                                 /\ stdout' = Append(stdout, [unit |-> "%", n |-> p])
                                 /\ Exit(0)

\* ------------------------------------------------------------------------
\* set_brightness after the matcher returned (src/main.c:330-339)
\* ------------------------------------------------------------------------
SetBrightness ==
  /\ pc = "matched"
  /\ cmd = "set"
  /\ UNCHANGED <<hid_version_major, argv, cmd, value, as_percentage_point, devices,
                 it, device, descriptor, stdout, input, brightness>>
  /\ IF device = 0
       THEN Exit(2) /\ UNCHANGED <<report, calls, absolute, percentage>>
       ELSE LET pct == ToUint8(value)
                target == IF as_percentage_point
                                THEN U32(to_absolute_brightness(pct)) ELSE value
                asserted == /\ as_percentage_point => InPercentRange(pct)
                            /\ ~U32Less(target, U32(BRIGHTNESS_MIN))
                            /\ ~U32Less(U32(BRIGHTNESS_MAX), target)
            IN /\ IF as_percentage_point
                    THEN percentage' = pct /\ absolute' = to_absolute_brightness(pct)
                    ELSE UNCHANGED <<absolute, percentage>>
               /\ \/ /\ ~asserted
                     /\ Abort
                     /\ UNCHANGED <<report, calls>>
                  \/ \E ret \in FeatureSendResults :
                       /\ report' = BrightnessReport(target)
                       /\ calls' = calls \o <<SendCall(device, ret, report'),
                                              Call("hid_close", device, 0)>>
                       /\ Exit(IF ret < 0 THEN 3 ELSE 0)

Next ==
  \/ Main
  \/ SetBrightnessValidate
  \/ PrintBrightnessEnter
  \/ HidEnumerate
  \/ MatcherStep
  \/ PrintBrightness
  \/ SetBrightness

Spec == Init /\ [][Next]_vars

\* ------------------------------------------------------------------------
\* The two conversions on their own, over their whole domains
\* ------------------------------------------------------------------------
ConvInit ==
  /\ pc = "convert"
  /\ \/ cmd = "to_percent" /\ input \in BRIGHTNESS_MIN..BRIGHTNESS_MAX
     \/ cmd = "to_absolute" /\ input \in 0..100
  /\ absolute = (IF cmd = "to_percent" THEN input ELSE 0)
  /\ percentage = (IF cmd = "to_absolute" THEN input ELSE 0)
  /\ hid_version_major = HID_API_VERSION_MAJOR
  /\ argv = <<>>
  /\ value = U32(0)
  /\ as_percentage_point = FALSE
  /\ devices = <<>>
  /\ it = 0
  /\ device = 0
  /\ descriptor = NoDescriptor
  /\ report = NoReport
  /\ calls = <<>>
  /\ stdout = <<>>
  /\ status = 0
  /\ brightness = 0

convUnchanged == <<hid_version_major, argv, cmd, value, as_percentage_point, devices,
                   it, device, descriptor, report, calls, stdout, status, input,
                   brightness>>

ToPercent ==
  /\ pc = "convert"
  /\ cmd = "to_percent"
  /\ percentage' = to_percent_brightness(absolute)
  /\ pc' = "converted"
  /\ UNCHANGED <<absolute, convUnchanged>>

ToAbsolute ==
  /\ pc = "convert"
  /\ cmd = "to_absolute"
  /\ absolute' = to_absolute_brightness(percentage)
  /\ pc' = "converted"
  /\ UNCHANGED <<percentage, convUnchanged>>

\* to_absolute_brightness applied to the result of to_percent_brightness
ToPercentThenAbsolute ==
  /\ pc = "converted"
  /\ cmd = "to_percent"
  /\ absolute' = to_absolute_brightness(percentage)
  /\ pc' = "round_trip"
  /\ UNCHANGED <<percentage, convUnchanged>>

\* to_percent_brightness applied to the result of to_absolute_brightness
ToAbsoluteThenPercent ==
  /\ pc = "converted"
  /\ cmd = "to_absolute"
  /\ percentage' = to_percent_brightness(absolute)
  /\ pc' = "round_trip"
  /\ UNCHANGED <<absolute, convUnchanged>>

ConvNext == ToPercent \/ ToAbsolute \/ ToPercentThenAbsolute \/ ToAbsoluteThenPercent

ConvSpec == ConvInit /\ [][ConvNext]_vars

\* ------------------------------------------------------------------------
\* Properties
\* ------------------------------------------------------------------------
CallIndices == 1..Len(calls)

OpenedHandles ==
  {calls[k].dev : k \in {j \in CallIndices : calls[j].op = "hid_open_path" /\ calls[j].ret = 1}}

CloseCount(h) ==
  Cardinality({k \in CallIndices : calls[k].op = "hid_close" /\ calls[k].dev = h})

FeatureReportCalls ==
  {k \in CallIndices : calls[k].op \in {"hid_get_feature_report", "hid_send_feature_report"}}

\* the five conditions of the target signature, on a descriptor record
FiveConditions(d) ==
  /\ d.usage_page = 32773
  /\ d.report_usage = 4105
  /\ d.report_id \div 256 = 1
  /\ d.logical_minimum = 400
  /\ d.logical_maximum = 50000

TargetIdentity(i) == devices[i].vendor_id = 1452 /\ devices[i].product_id = 37443

\* interface i has the target identity, opens, and its descriptor read is
\* full-size and carries the signature
Usable(i) ==
  /\ TargetIdentity(i)
  /\ devices[i].opens
  /\ devices[i].bytes_read = 34
  /\ FiveConditions(devices[i].descriptor)

\* C1: every handle that was opened is closed exactly once before the
\* invocation returns; none is closed twice, none is closed without having
\* been opened, and no transport call is made on a handle after its close.
C1_HandleClosedExactlyOnce ==
  /\ \A k \in CallIndices :
       calls[k].op = "hid_close" =>
         /\ \E j \in 1..(k - 1) :
              calls[j].op = "hid_open_path" /\ calls[j].dev = calls[k].dev /\ calls[j].ret = 1
         /\ \A l \in (k + 1)..Len(calls) : calls[l].dev # calls[k].dev
  /\ \A h \in OpenedHandles : CloseCount(h) <= 1
  /\ pc = "exit" => \A h \in OpenedHandles : CloseCount(h) = 1

\* two rejected candidates and the matched one, whose feature-report read
\* failed, have all been closed at exit 3
C1_Witness ==
  /\ pc = "exit"
  /\ status = 3
  /\ Cardinality(OpenedHandles) = 3
  /\ \A h \in OpenedHandles : CloseCount(h) = 1

\* the last descriptor read of the scan, when it returned the full size
LastDescriptorRead ==
  LET reads == {k \in CallIndices : calls[k].op = "hid_get_report_descriptor"}
  IN IF reads = {} THEN 0
     ELSE CHOOSE k \in reads : \A j \in reads : j <= k

\* C2: after a full-size descriptor read the candidate is accepted (becomes
\* the returned handle) if and only if the five conditions hold of the
\* descriptor that was read; no other field takes part.
C2_DescriptorCheckIffFiveConditions ==
  (/\ pc \in {"scan", "matched"}
   /\ LastDescriptorRead # 0
   /\ calls[LastDescriptorRead].ret = 34)
  => (device = calls[LastDescriptorRead].dev <=> FiveConditions(descriptor))

\* a candidate with only logical_maximum off was rejected and closed, then a
\* candidate differing from the reference descriptor in the low byte of
\* report_id only was accepted
C2_Witness ==
  /\ pc = "matched"
  /\ device = 2
  /\ devices[1].descriptor = [TargetDescriptor EXCEPT !.logical_maximum = 50001]
  /\ CloseCount(1) = 1
  /\ descriptor = [TargetDescriptor EXCEPT !.report_id = 256]

\* C3: the handle the matcher returns is that of the earliest usable interface
\* in enumeration order; it is open, every candidate opened before it has been
\* closed, and no later interface is ever the subject of a transport call.
C3_FirstMatchWins ==
  /\ (pc = "matched" /\ device # 0) =>
       /\ device \in 1..Len(devices)
       /\ Usable(device)
       /\ \A j \in 1..(device - 1) : ~Usable(j)
       /\ device \in OpenedHandles
       /\ CloseCount(device) = 0
       /\ \A h \in OpenedHandles : h # device => (h < device /\ CloseCount(h) = 1)
  /\ (pc \in {"matched", "exit", "abort"} /\ device # 0) =>
       \A k \in CallIndices : calls[k].dev <= device

\* the second of three interfaces is returned: the first was opened, rejected
\* and closed, the third would have matched too and was never opened
C3_Witness ==
  /\ pc = "matched"
  /\ device = 2
  /\ Len(devices) = 3
  /\ 1 \in OpenedHandles
  /\ CloseCount(1) = 1
  /\ Usable(3)
  /\ \A k \in CallIndices : calls[k].dev # 3

\* C4: the matcher returns NotFound exactly when no enumerated interface is
\* usable; failures on one candidate do not stop the scan (every interface
\* with the target identity has then been tried); get and set then return 2
\* without any feature-report request.
C4_NotFoundIffNoUsableInterface ==
  /\ pc = "matched" =>
       /\ device = 0 <=> ~(\E i \in 1..Len(devices) : Usable(i))
       /\ device = 0 =>
            \A i \in 1..Len(devices) :
              TargetIdentity(i) =>
                \E k \in CallIndices : calls[k].op = "hid_open_path" /\ calls[k].dev = i
  /\ (pc \in {"exit", "abort"} /\ Len(calls) > 0 /\ device = 0) =>
       /\ pc = "exit"
       /\ status = 2
       /\ FeatureReportCalls = {}

\* an open failure, then a failed descriptor read, then a third candidate
\* that was still tried; the invocation ended with status 2
C4_Witness ==
  /\ pc = "exit"
  /\ status = 2
  /\ Len(devices) = 3
  /\ ~devices[1].opens /\ TargetIdentity(1)
  /\ devices[2].opens /\ TargetIdentity(2) /\ devices[2].bytes_read = 0 - 1
  /\ \E k \in CallIndices : calls[k].op = "hid_get_report_descriptor" /\ calls[k].dev = 3

FeatureReads == {k \in CallIndices : calls[k].op = "hid_get_feature_report"}

\* C5: when hid_get_feature_report fails or returns another count than the
\* 7-byte report size, get returns status 3 and prints nothing.
C5_ShortOrFailedReadIsError ==
  (\E k \in FeatureReads : calls[k].ret # 7) =>
    (pc = "exit" /\ status = 3 /\ stdout = <<>>)

\* the set value is a bare decimal integer, or one followed by a single '%'
WellFormedValue(a) ==
  \/ Len(a) >= 1 /\ \A i \in 1..Len(a) : a[i] \in DigitChars
  \/ /\ Len(a) >= 2
     /\ a[Len(a)] = "%"
     /\ \A i \in 1..(Len(a) - 1) : a[i] \in DigitChars

\* C6: a set value that is neither a bare decimal integer nor one followed by
\* exactly one '%' ends the invocation with status 1 and no transport call.
C6_MalformedValueRejected ==
  (Len(argv) = 2 /\ argv[1] = SET /\ ~WellFormedValue(argv[2])) =>
    /\ calls = <<>>
    /\ pc \in {"main", "set_brightness", "exit"}
    /\ pc = "exit" => status = 1

OutOfRange(v, as_percent) ==
  IF as_percent THEN v.hi > 0 \/ v.lo > 100
  ELSE v.hi > 0 \/ v.lo < 400 \/ v.lo > 50000

\* C7: set_brightness with a percentage above 100 or an absolute value
\* outside [400, 50000] returns 1 and has made no transport call.
C7_SetValidatesBeforeTransport ==
  (cmd = "set" /\ OutOfRange(value, as_percentage_point)) =>
    /\ calls = <<>>
    /\ pc \in {"set_brightness", "exit"}
    /\ pc = "exit" => status = 1

\* set 50001 was refused with status 1
C7_Witness ==
  /\ pc = "exit"
  /\ status = 1
  /\ cmd = "set"
  /\ ~as_percentage_point
  /\ value = U32(50001)
  /\ calls = <<>>

\* C8: after a full-size feature-report read, hid_get_brightness returns the
\* 32-bit value of the brightness field, which is not the error value, and get
\* without a flag prints it and returns 0.
C8_ReadReturnsDeviceValue ==
  (cmd = "get" /\ \E k \in FeatureReads : calls[k].ret = 7) =>
    /\ brightness >= 0
    /\ U32(brightness) = le32toh(SubSeq(report, 2, 5))
    /\ ~as_percentage_point =>
         /\ pc = "exit"
         /\ status = 0
         /\ stdout = <<[unit |-> "", n |-> brightness]>>

\* C9: to_percent_brightness and to_absolute_brightness agree with the exact
\* floor formulas on their whole domains and stay in range.
C9_ConversionsMatchFloorFormulas ==
  pc = "converted" =>
    /\ cmd = "to_percent" =>
         /\ percentage = ((input - 400) * 100) \div 49600
         /\ percentage \in 0..100
    /\ cmd = "to_absolute" =>
         /\ absolute = ((input * 49600) \div 100) + 400
         /\ absolute \in 400..50000

\* C10: to_absolute_brightness(to_percent_brightness(a)) never exceeds a and
\* is at most 496 below it.
C10_RoundTripWithinOneStep ==
  (pc = "round_trip" /\ cmd = "to_percent") =>
    /\ absolute <= input
    /\ input - absolute <= 496

\* 26688 converts to 52% and back to 26192, a full step of 496 below
C10_Witness ==
  /\ pc = "round_trip"
  /\ cmd = "to_percent"
  /\ input = 26688
  /\ percentage = 52
  /\ absolute = 26192

FeatureSends == {k \in CallIndices : calls[k].op = "hid_send_feature_report"}

\* C11: with a device found, set issues exactly one feature-report write of
\* the 7 bytes 0x01, the target value little-endian, 0, 0, where the target is
\* floor(p * 49600 / 100) + 400 for p% and v for an absolute v; it returns 0
\* when the write succeeds.
C11_SetWritesEncodedTarget ==
  (cmd = "set" /\ device # 0 /\ pc \in {"exit", "abort"}) =>
    LET t == IF as_percentage_point THEN ((value.lo * 49600) \div 100) + 400
             ELSE value.lo
    IN /\ pc = "exit"
       /\ value.hi = 0
       /\ Cardinality(FeatureSends) = 1
       /\ FeatureReads = {}
       /\ \A k \in FeatureSends :
            /\ calls[k].dev = device
            /\ calls[k].data = <<1, t % 256, t \div 256, 0, 0, 0, 0>>
            /\ calls[k].ret = 7 => status = 0

\* set 30% wrote 15280 = 0x3bb0 as 01 b0 3b 00 00 00 00 and returned 0
C11_Witness ==
  /\ pc = "exit"
  /\ status = 0
  /\ argv = <<SET, <<"3", "0", "%">>>>
  /\ \E k \in FeatureSends : calls[k].data = <<1, 176, 59, 0, 0, 0, 0>>

\* the brightness field of the report buffer, when it is below 2^16
ReportField == report[2] + 256 * report[3]

\* C12: after a full-size read reporting v in [400, 50000], get prints v and
\* get -% prints to_percent(v) with '%', both returning 0 (25000 and 49% for
\* v = 25000); nothing is printed on the status 2 and status 3 paths.
C12_GetPrintsValueOrPercent ==
  /\ (/\ cmd = "get"
      /\ \E k \in FeatureReads : calls[k].ret = 7
      /\ report[4] = 0 /\ report[5] = 0
      /\ ReportField >= 400 /\ ReportField <= 50000) =>
       /\ pc = "exit"
       /\ status = 0
       /\ stdout = <<IF as_percentage_point
                       THEN [unit |-> "%", n |-> to_percent_brightness(ReportField)]
                       ELSE [unit |-> "", n |-> ReportField]>>
       /\ ReportField = 25000 =>
            stdout[1].n = (IF as_percentage_point THEN 49 ELSE 25000)
  /\ (pc = "exit" /\ status \in {2, 3}) => stdout = <<>>

\* get -% on a display reporting 25000 printed 49%
C12_Witness ==
  /\ pc = "exit"
  /\ status = 0
  /\ argv = <<GET, PERCENT_FLAG>>
  /\ report = <<1, 168, 97, 0, 0, 0, 0>>
  /\ stdout = <<[unit |-> "%", n |-> 49]>>

\* C13: an invocation issues at most one feature-report request, and when
\* that request fails it closes the handle and returns status 3.
C13_NoRetryFailureSurfaces ==
  /\ Cardinality(FeatureReportCalls) <= 1
  /\ \A k \in FeatureReportCalls :
       calls[k].ret < 0 =>
         /\ pc = "exit"
         /\ status = 3
         /\ Len(calls) = k + 1
         /\ calls[k + 1].op = "hid_close"
         /\ calls[k + 1].dev = calls[k].dev

\* a failed write in set: one request, the handle closed, status 3
C13_Witness ==
  /\ pc = "exit"
  /\ status = 3
  /\ cmd = "set"
  /\ Cardinality(FeatureReportCalls) = 1
  /\ \E k \in FeatureSends : calls[k].ret = 0 - 1 /\ CloseCount(calls[k].dev) = 1

\* C14: with a library of another major version every command line ends
\* with status 1 and no transport call is ever made.
C14_VersionMismatchIsFatal ==
  hid_version_major # HID_API_VERSION_MAJOR =>
    /\ calls = <<>>
    /\ stdout = <<>>
    /\ pc \in {"main", "exit"}
    /\ pc = "exit" => status = 1

\* even help is refused under a version mismatch
C14_Witness ==
  /\ pc = "exit"
  /\ status = 1
  /\ hid_version_major # HID_API_VERSION_MAJOR
  /\ argv = <<HELP>>

DescriptorReads == {k \in CallIndices : calls[k].op = "hid_get_report_descriptor"}

\* C15: a descriptor read that fails or returns another count than 34 makes
\* the candidate a non-match whatever the buffer holds: its handle is closed
\* at once, it is not returned, and the scan goes on to the next candidate.
C15_ShortDescriptorReadIsNonMatch ==
  \A k \in DescriptorReads :
    calls[k].ret # 34 =>
      /\ Len(calls) > k
      /\ calls[k + 1].op = "hid_close"
      /\ calls[k + 1].dev = calls[k].dev
      /\ device # calls[k].dev
      /\ pc = "scan" => it > calls[k].dev
      /\ pc # "scan" =>
           \A j \in (calls[k].dev + 1)..Len(devices) :
             (TargetIdentity(j) /\ (device = 0 \/ j <= device)) =>
               \E l \in CallIndices : calls[l].op = "hid_open_path" /\ calls[l].dev = j

\* a read one byte short of an otherwise matching descriptor: closed, and the
\* next candidate became the returned handle
C15_Witness ==
  /\ pc = "matched"
  /\ device = 2
  /\ devices[1].bytes_read = 33
  /\ FiveConditions(devices[1].descriptor)
  /\ FiveConditions(descriptor)
  /\ CloseCount(1) = 1

OpenCount(i) ==
  Cardinality({k \in CallIndices : calls[k].op = "hid_open_path" /\ calls[k].dev = i})

\* C16: an interface of another vendor or product is never opened nor asked
\* for its descriptor, and a target-identity interface is opened at most once.
C16_OnlyTargetIdentityOpened ==
  /\ \A k \in CallIndices :
       calls[k].op \in {"hid_open_path", "hid_get_report_descriptor"} =>
         TargetIdentity(calls[k].dev)
  /\ \A i \in 1..Len(devices) : OpenCount(i) <= 1

\* two foreign interfaces that would open and carry the signature were passed
\* over; the third interface was opened once and returned
C16_Witness ==
  /\ pc = "matched"
  /\ device = 3
  /\ devices[1].vendor_id # 1452 /\ devices[1].opens
  /\ devices[2].product_id # 37443 /\ devices[2].opens
  /\ FiveConditions(devices[1].descriptor)
  /\ OpenCount(1) = 0 /\ OpenCount(2) = 0 /\ OpenCount(3) = 1

\* C17: whatever the command line, set never fails an assertion and every
\* report it sends carries a value in [400, 50000].
C17_SetPreconditionHolds ==
  cmd = "set" =>
    /\ pc # "abort"
    /\ \A k \in FeatureSends :
         /\ calls[k].data[4] = 0 /\ calls[k].data[5] = 0
         /\ calls[k].data[2] + 256 * calls[k].data[3] >= 400
         /\ calls[k].data[2] + 256 * calls[k].data[3] <= 50000
    /\ (as_percentage_point /\ pc \in {"hid_enumerate", "scan", "matched"}) =>
         (value.hi = 0 /\ value.lo <= 100)

\* set 100% sent the upper bound 50000 = 0xc350
C17_Witness ==
  /\ pc = "exit"
  /\ argv = <<SET, <<"1", "0", "0", "%">>>>
  /\ percentage = 100
  /\ absolute = 50000
  /\ \E k \in FeatureSends : calls[k].data = <<1, 80, 195, 0, 0, 0, 0>>

\* C18: in get -%, whatever the display returns in a successful read, the
\* value given to to_percent_brightness is in [400, 50000], no assertion
\* fails and the percentage printed is in [0, 100].
C18_GetPercentPreconditionHolds ==
  (/\ cmd = "get"
   /\ as_percentage_point
   /\ \E k \in FeatureReads : calls[k].ret = 7
   /\ brightness >= 0) =>
    /\ pc = "exit"
    /\ brightness >= 400 /\ brightness <= 50000
    /\ Len(stdout) = 1
    /\ stdout[1].n \in 0..100

SignChars == {"+", "-"}

\* the argument is an optionally signed, non-empty string of decimal digits
IsDecimalInteger(a) ==
  LET first == IF Len(a) >= 1 /\ a[1] \in SignChars THEN 2 ELSE 1
  IN /\ Len(a) >= first
     /\ \A i \in first..Len(a) : a[i] \in DigitChars

RECURSIVE Magnitude(_, _, _)
\* the number the digits from position i on denote, 100000 standing for
\* anything that large or larger
Magnitude(a, i, acc) ==
  IF i > Len(a) THEN acc
  ELSE LET n == acc * 10 + DigitVal(a[i])
       IN Magnitude(a, i + 1, IF n > 100000 THEN 100000 ELSE n)

\* the number the argument denotes lies outside [400, 50000]
DenotesOutOfRange(a) ==
  LET signed == a[1] \in SignChars
      m == Magnitude(a, IF signed THEN 2 ELSE 1, 0)
  IN a[1] = "-" \/ m < 400 \/ m > 50000

\* C19: a set argument that is a decimal integer outside [400, 50000], however
\* large or negative, ends with status 1 and no feature report is sent.
C19_NarrowingKeepsOutOfRangeRejected ==
  (/\ Len(argv) = 2
   /\ argv[1] = SET
   /\ IsDecimalInteger(argv[2])
   /\ DenotesOutOfRange(argv[2])) =>
    /\ FeatureReportCalls = {}
    /\ pc # "abort"
    /\ pc = "exit" => status = 1

\* C20: to_percent_brightness(to_absolute_brightness(p)) = p for every p in
\* [0, 100], to_absolute_brightness(p) being 400 + 496 * p.
C20_PercentRoundTrip ==
  (cmd = "to_absolute" /\ pc \in {"converted", "round_trip"}) =>
    /\ absolute = 400 + 496 * input
    /\ pc = "round_trip" => percentage = input

====
